---- MODULE Spec2Model ----
(***************************************************************************)
(* Model of python/pyspark/errors/exceptions/base.py: PySparkException     *)
(* (construction, accessors, __str__) and the exception class hierarchy.   *)
(*                                                                         *)
(* Encoding of Python values:                                              *)
(*   str            a TLA+ string                                          *)
(*   Optional[T]    None is <<>>, a present value v is <<v>>               *)
(*   Dict[str,str]  a function from a set of keys to strings               *)
(* One exception object is followed at a time: inst is <<>> while no       *)
(* instance exists and <<self>> once a construction has succeeded.         *)
(***************************************************************************)
EXTENDS Integers, Sequences, FiniteSets, TLC

VARIABLES
    inst,         \* the PySparkException object under observation, <<>> or <<self>>
    args,         \* arguments of the latest constructor call, <<>> or <<record>>
    result,       \* outcome of the latest operation
    registryLog,  \* ErrorClassesReader interactions since the latest constructor call began
    built,        \* history: the fields as they were when construction ended
    first,        \* history: outcome of the first call of each accessor on inst
    repeated      \* history: some accessor has been called again on inst

vars == <<inst, args, result, registryLog, built, first, repeated>>

(* result is a record: op names the operation ("" before the first one),    *)
(* arg its class argument (the class constructed, the class of an except    *)
(* clause), exc the exception it raised and val its return value, <<v>>,    *)
(* or <<>> when it raised.                                                  *)

None == <<>>
Some(v) == <<v>>

NoInstance == <<>>
NoException == "NoException"

Returned(op, arg, v) == [op |-> op, arg |-> arg, exc |-> NoException, val |-> <<v>>]
Raised(op, arg, e) == [op |-> op, arg |-> arg, exc |-> e, val |-> <<>>]

----------------------------------------------------------------------------
(* The class statements of base.py.  Bases(c) is the tuple of bases in the  *)
(* class statement of c; the builtin exceptions derive from Exception.      *)

PySparkClasses ==
    { "PySparkException", "AnalysisException", "TempTableAlreadyExistsException",
      "ParseException", "IllegalArgumentException", "ArithmeticException",
      "ArrayIndexOutOfBoundsException", "DateTimeException", "NumberFormatException",
      "StreamingQueryException", "QueryExecutionException", "PythonException",
      "SparkRuntimeException", "SparkUpgradeException", "UnknownException",
      "PySparkValueError", "PySparkTypeError", "PySparkAttributeError" }

BuiltinClasses == { "Exception", "ValueError", "TypeError", "AttributeError" }

Classes == PySparkClasses \cup BuiltinClasses

BasesTypeErrorAsValueError(c) ==
    CASE c = "Exception" -> {}
      [] c \in {"ValueError", "TypeError", "AttributeError"} -> {"Exception"}
      [] c = "PySparkException" -> {"Exception"}
      [] c \in {"TempTableAlreadyExistsException", "ParseException"} -> {"AnalysisException"}
      [] c = "NumberFormatException" -> {"IllegalArgumentException"}
      [] c = "PySparkValueError" -> {"PySparkException", "ValueError"}
      [] c = "PySparkTypeError" -> {"PySparkException", "ValueError"}
      [] c = "PySparkAttributeError" -> {"PySparkException", "AttributeError"}
      [] OTHER -> {"PySparkException"}

BasesNumberFormatFlat(c) ==
    CASE c = "Exception" -> {}
      [] c \in {"ValueError", "TypeError", "AttributeError"} -> {"Exception"}
      [] c = "PySparkException" -> {"Exception"}
      [] c \in {"TempTableAlreadyExistsException", "ParseException"} -> {"AnalysisException"}
      [] c = "PySparkValueError" -> {"PySparkException", "ValueError"}
      [] c = "PySparkTypeError" -> {"PySparkException", "TypeError"}
      [] c = "PySparkAttributeError" -> {"PySparkException", "AttributeError"}
      [] OTHER -> {"PySparkException"}

Bases(c) ==
    CASE c = "Exception" -> {}
      [] c \in {"ValueError", "TypeError", "AttributeError"} -> {"Exception"}
      [] c = "PySparkException" -> {"Exception"}
      [] c = "AnalysisException" -> {"PySparkException"}
      [] c = "TempTableAlreadyExistsException" -> {"AnalysisException"}
      [] c = "ParseException" -> {"AnalysisException"}
      [] c = "IllegalArgumentException" -> {"PySparkException"}
      [] c = "ArithmeticException" -> {"PySparkException"}
      [] c = "ArrayIndexOutOfBoundsException" -> {"PySparkException"}
      [] c = "DateTimeException" -> {"PySparkException"}
      [] c = "NumberFormatException" -> {"IllegalArgumentException"}
      [] c = "StreamingQueryException" -> {"PySparkException"}
      [] c = "QueryExecutionException" -> {"PySparkException"}
      [] c = "PythonException" -> {"PySparkException"}
      [] c = "SparkRuntimeException" -> {"PySparkException"}
      [] c = "SparkUpgradeException" -> {"PySparkException"}
      [] c = "UnknownException" -> {"PySparkException"}
      [] c = "PySparkValueError" -> {"PySparkException", "ValueError"}
      [] c = "PySparkTypeError" -> {"PySparkException", "TypeError"}
      [] c = "PySparkAttributeError" -> {"PySparkException", "AttributeError"}

(* The classes of c's method resolution order: c and everything reachable   *)
(* from it through Bases.                                                   *)
RECURSIVE Ancestors(_)
Ancestors(c) == {c} \cup UNION { Ancestors(b) : b \in Bases(c) }

(* isinstance(e, h) for an object e of class c: what an `except h` clause    *)
(* tests.                                                                   *)
IsInstance(c, h) == h \in Ancestors(c)

----------------------------------------------------------------------------
(* ErrorClassesReader (pyspark.errors.utils), the template registry.  A      *)
(* template is a sequence of segments: literal text, or a named placeholder. *)

Lit(t) == [kind |-> "lit", text |-> t]
Ph(k) == [kind |-> "ph", text |-> k]

ERROR_CLASSES ==
    [c \in {"DATETIME_OVERFLOW", "NO_PARAMS", "TWO_PARAMS"} |->
        CASE c = "DATETIME_OVERFLOW" ->
                 <<Lit("value "), Ph("value"), Lit(" overflows datetime range")>>
          [] c = "NO_PARAMS" -> <<Lit("plain text")>>
          [] c = "TWO_PARAMS" -> <<Ph("value"), Lit(" vs "), Ph("other")>>]

Placeholders(template) ==
    { template[i].text : i \in { j \in DOMAIN template : template[j].kind = "ph" } }

RECURSIVE Substitute(_, _)
Substitute(template, params) ==
    IF template = <<>> THEN ""
    ELSE (IF Head(template).kind = "ph" THEN params[Head(template).text]
                                         ELSE Head(template).text)
         \o Substitute(Tail(template), params)

get_error_message(error_class, message_parameters) ==
    IF error_class \notin DOMAIN ERROR_CLASSES
    THEN [exc |-> "UnknownErrorClass", val |-> ""]
    ELSE IF ~(Placeholders(ERROR_CLASSES[error_class]) \subseteq DOMAIN message_parameters)
    THEN [exc |-> "MissingParameter", val |-> ""]
    ELSE [exc |-> NoException,
          val |-> Substitute(ERROR_CLASSES[error_class], message_parameters)]

----------------------------------------------------------------------------
(* PySparkException.__init__                                                *)

(* The condition of the assert statement.                                   *)
ArgsAcceptedIgnoringErrorClass(message, error_class, message_parameters) ==
    \/ (message # None /\ message_parameters = None)
    \/ (message = None /\ (error_class # None /\ message_parameters # None))

ArgsAccepted(message, error_class, message_parameters) ==
    \/ (message # None /\ (error_class = None /\ message_parameters = None))
    \/ (message = None /\ (error_class # None /\ message_parameters # None))

Object(cls, message, error_class, message_parameters) ==
    [cls |-> cls,
     error_reader |-> "ErrorClassesReader",
     message |-> message,
     error_class |-> error_class,
     message_parameters |-> message_parameters]

(* The constructor call cls(message, error_class, message_parameters): the   *)
(* exception it raises (if any), the object it yields (if any) and the       *)
(* registry interactions it made, in order.                                 *)
PySparkException_initFallback(cls, message, error_class, message_parameters) ==
    IF ~ArgsAccepted(message, error_class, message_parameters)
    THEN [exc |-> "AssertionError", self |-> NoInstance, log |-> <<>>]
    ELSE IF message = None
    THEN LET r == get_error_message(error_class[1], message_parameters[1])
             log == <<"ErrorClassesReader", "get_error_message">>
         IN  IF r.exc # NoException
             THEN [exc |-> NoException,
                   self |-> <<Object("UnknownException", r.exc, None, None)>>,
                   log |-> log]
             ELSE [exc |-> NoException,
                   self |-> <<Object(cls, r.val, error_class, message_parameters)>>,
                   log |-> log]
    ELSE [exc |-> NoException,
          self |-> <<Object(cls, message[1], error_class, message_parameters)>>,
          log |-> <<"ErrorClassesReader">>]

PySparkException_initResolveFirst(cls, message, error_class, message_parameters) ==
    LET log == <<"ErrorClassesReader", "get_error_message">>
        r == IF error_class # None /\ message_parameters # None
             THEN get_error_message(error_class[1], message_parameters[1])
             ELSE [exc |-> NoException, val |-> ""]
    IN  IF r.exc # NoException
        THEN [exc |-> r.exc, self |-> NoInstance, log |-> log]
        ELSE IF ~ArgsAccepted(message, error_class, message_parameters)
        THEN [exc |-> "AssertionError", self |-> NoInstance,
              log |-> IF error_class # None /\ message_parameters # None
                      THEN log ELSE <<"ErrorClassesReader">>]
        ELSE IF message = None
        THEN [exc |-> NoException,
              self |-> <<Object(cls, r.val, error_class, message_parameters)>>,
              log |-> log]
        ELSE [exc |-> NoException,
              self |-> <<Object(cls, message[1], error_class, message_parameters)>>,
              log |-> <<"ErrorClassesReader">>]

PySparkException_init(cls, message, error_class, message_parameters) ==
    IF ~ArgsAccepted(message, error_class, message_parameters)
    THEN [exc |-> "AssertionError", self |-> NoInstance, log |-> <<>>]
    ELSE IF message = None
    THEN LET r == get_error_message(error_class[1], message_parameters[1])
             log == <<"ErrorClassesReader", "get_error_message">>
         IN  IF r.exc # NoException
             THEN [exc |-> r.exc, self |-> NoInstance, log |-> log]
             ELSE [exc |-> NoException,
                   self |-> <<Object(cls, r.val, error_class, message_parameters)>>,
                   log |-> log]
    ELSE [exc |-> NoException,
          self |-> <<Object(cls, message[1], error_class, message_parameters)>>,
          log |-> <<"ErrorClassesReader">>]

(* Input domains of the constructor.  The model follows one constructor     *)
(* call per behaviour: base.py keeps no state between constructor calls.    *)
Messages == { None, Some("boom"), Some(""), Some("[NO_PARAMS] plain text") }
ErrorClassIds == { None, Some("DATETIME_OVERFLOW"), Some("NO_PARAMS"),
                   Some("TWO_PARAMS"), Some("NOT_REGISTERED") }
ParamKeys == { "value", "other" }
ParamValues == { "9999-99-99", "" }
Dicts == UNION { [K -> ParamValues] : K \in SUBSET ParamKeys }
MessageParameters == { None } \cup { Some(d) : d \in Dicts }

Accessors == { "getErrorClass", "getMessageParameters", "getSqlState",
               "isTransientError", "__str__" }

Fields(self) ==
    [message |-> self.message,
     error_class |-> self.error_class,
     message_parameters |-> self.message_parameters]

Construct(cls, message, error_class, message_parameters) ==
    LET out == PySparkException_init(cls, message, error_class, message_parameters)
    IN  /\ args = <<>>
        /\ inst' = out.self
        /\ args' = <<[cls |-> cls, message |-> message, error_class |-> error_class,
                      message_parameters |-> message_parameters]>>
        /\ result' = IF out.exc = NoException
                     THEN Returned("__init__", cls, "object")
                     ELSE Raised("__init__", cls, out.exc)
        /\ registryLog' = out.log
        /\ built' = IF out.self = NoInstance THEN <<>> ELSE <<Fields(out.self[1])>>
        /\ first' = [a \in Accessors |-> <<>>]
        /\ repeated' = FALSE

----------------------------------------------------------------------------
(* Accessors and __str__.  Each is enabled on an existing instance.         *)

Self == inst[1]

(* Records the outcome of an accessor call; the first outcome of each       *)
(* accessor on this instance is kept in first.                              *)
Call(name, outcome) ==
    /\ result' = outcome
    /\ first' = IF first[name] = <<>> THEN [first EXCEPT ![name] = <<outcome>>]
                                      ELSE first
    /\ repeated' = (repeated \/ first[name] # <<>>)

getErrorClass ==
    /\ inst # NoInstance
    /\ Call("getErrorClass", Returned("getErrorClass", "", Self.error_class))
    /\ UNCHANGED <<inst, args, registryLog, built>>

getMessageParametersConsuming ==
    /\ inst # NoInstance
    /\ Call("getMessageParameters",
            Returned("getMessageParameters", "", Self.message_parameters))
    /\ inst' = <<[Self EXCEPT !.message_parameters = None]>>
    /\ UNCHANGED <<args, registryLog, built>>

getMessageParameters ==
    /\ inst # NoInstance
    /\ Call("getMessageParameters",
            Returned("getMessageParameters", "", Self.message_parameters))
    /\ UNCHANGED <<inst, args, registryLog, built>>

getSqlState ==
    /\ inst # NoInstance
    /\ Call("getSqlState", Returned("getSqlState", "", None))
    /\ UNCHANGED <<inst, args, registryLog, built>>

(* `def isTransientError(self) -> None:` is followed by no body: the next    *)
(* line of code is `def __str__` at the same indentation.  CPython rejects   *)
(* the def ("IndentationError: expected an indented block"), so no call of   *)
(* isTransientError returns a value.                                        *)
isTransientError ==
    /\ inst # NoInstance
    /\ Call("isTransientError", Raised("isTransientError", "", "IndentationError"))
    /\ UNCHANGED <<inst, args, registryLog, built>>

PySparkException_strAlwaysTagged(self) ==
    "[" \o (IF self.error_class # None THEN self.error_class[1] ELSE "None") \o "] "
        \o self.message

PySparkException_strNeverTagged(self) == self.message

(* __str__ as a function of the object.                                     *)
PySparkException_str(self) ==
    IF self.error_class # None
    THEN "[" \o self.error_class[1] \o "] " \o self.message
    ELSE self.message

toDisplayStringResolving ==
    /\ inst # NoInstance
    /\ Call("__str__", Returned("__str__", "", PySparkException_str(Self)))
    /\ registryLog' = IF Self.error_class # None
                      THEN Append(registryLog, "get_error_message")
                      ELSE registryLog
    /\ UNCHANGED <<inst, args, built>>

toDisplayString ==
    /\ inst # NoInstance
    /\ Call("__str__", Returned("__str__", "", PySparkException_str(Self)))
    /\ UNCHANGED <<inst, args, registryLog, built>>

(* An `except handler` clause meeting the instance: isinstance(inst, handler). *)
Catch(handler) ==
    /\ inst # NoInstance
    /\ result' = Returned("isinstance", handler, IsInstance(Self.cls, handler))
    /\ UNCHANGED <<inst, args, registryLog, built, first, repeated>>

----------------------------------------------------------------------------

Init ==
    /\ inst = NoInstance
    /\ args = <<>>
    /\ result = Returned("", "", "")
    /\ registryLog = <<>>
    /\ built = <<>>
    /\ first = [a \in Accessors |-> <<>>]
    /\ repeated = FALSE

Constructs ==
    \E cls \in PySparkClasses, message \in Messages,
       error_class \in ErrorClassIds, message_parameters \in MessageParameters :
       Construct(cls, message, error_class, message_parameters)

(* A constructor call, then any sequence of accessor and __str__ calls on    *)
(* the object it yields.                                                    *)
Next ==
    \/ Constructs
    \/ getErrorClass
    \/ getMessageParameters
    \/ getSqlState
    \/ isTransientError
    \/ toDisplayString

Spec == Init /\ [][Next]_vars

(* A constructor call, then any sequence of except clauses meeting the      *)
(* object it yields.                                                        *)
NextCatch ==
    \/ Constructs
    \/ \E handler \in Classes : Catch(handler)

SpecCatch == Init /\ [][NextCatch]_vars

----------------------------------------------------------------------------
(* Properties.                                                              *)

Constructed == args # <<>>
A == args[1]

LiteralOnly ==
    A.message # None /\ A.error_class = None /\ A.message_parameters = None
ClassOnly ==
    A.message = None /\ A.error_class # None /\ A.message_parameters # None

(* Presence (TRUE) or absence (FALSE) of message, error_class and           *)
(* message_parameters in the constructor call.                              *)
Presence == <<A.message # None, A.error_class # None, A.message_parameters # None>>

InvalidPresences ==
    { <<FALSE, FALSE, FALSE>>,  \* all three absent
      <<TRUE, TRUE, TRUE>>,     \* all three present
      <<TRUE, TRUE, FALSE>>,    \* message with error_class only
      <<TRUE, FALSE, TRUE>>,    \* message with message_parameters only
      <<FALSE, TRUE, FALSE>>,   \* error_class without message_parameters
      <<FALSE, FALSE, TRUE>> }  \* message_parameters without error_class

(* C1: a constructor call with any of the six invalid presence combinations *)
(* of (message, error_class, message_parameters) raises AssertionError and  *)
(* yields no instance; an instance exists only after a call with message    *)
(* alone or with error_class and message_parameters alone.                  *)
C1_MutualExclusivity ==
    Constructed =>
        /\ Presence \in InvalidPresences =>
              /\ inst = NoInstance
              /\ result = Raised("__init__", A.cls, "AssertionError")
        /\ inst # NoInstance =>
              Presence \in { <<TRUE, FALSE, FALSE>>, <<FALSE, TRUE, TRUE>> }

C1_Witness ==
    /\ Constructed
    /\ Presence = <<FALSE, TRUE, FALSE>>
    /\ result.exc = "AssertionError"
    /\ inst = NoInstance

(* C2: for every class and every literal message m (the empty string        *)
(* included) the call cls(message=m) yields an instance whose __str__ is m  *)
(* exactly, whose getErrorClass() is None and whose getMessageParameters()  *)
(* is None.                                                                 *)
C2_LiteralMessage ==
    (Constructed /\ LiteralOnly) =>
        /\ inst # NoInstance
        /\ Self.cls = A.cls
        /\ result.op = "__str__" => result.val = <<A.message[1]>>
        /\ result.op = "getErrorClass" => result.val = <<None>>
        /\ result.op = "getMessageParameters" => result.val = <<None>>

C2_Witness ==
    /\ Constructed
    /\ A.cls = "ParseException"
    /\ A.message = Some("[NO_PARAMS] plain text")
    /\ first["getErrorClass"] # <<>>
    /\ first["getMessageParameters"] # <<>>
    /\ result.op = "__str__"
    /\ result.val = <<"[NO_PARAMS] plain text">>

Resolvable(error_class, message_parameters) ==
    /\ error_class \in DOMAIN ERROR_CLASSES
    /\ Placeholders(ERROR_CLASSES[error_class]) \subseteq DOMAIN message_parameters

(* C3: for every class and every (classId, params) with classId registered  *)
(* and every placeholder of its template supplied, the call                 *)
(* cls(error_class=classId, message_parameters=params) yields an instance   *)
(* whose __str__ is "[" + classId + "] " + resolve(classId, params), whose  *)
(* getErrorClass() is classId and whose getMessageParameters() is params.   *)
C3_ClassMessage ==
    (Constructed /\ ClassOnly /\ Resolvable(A.error_class[1], A.message_parameters[1])) =>
        /\ inst # NoInstance
        /\ Self.cls = A.cls
        /\ result.op = "__str__" =>
              result.val = << "[" \o A.error_class[1] \o "] "
                              \o get_error_message(A.error_class[1],
                                                   A.message_parameters[1]).val >>
        /\ result.op = "getErrorClass" => result.val = <<Some(A.error_class[1])>>
        /\ result.op = "getMessageParameters" =>
              result.val = <<Some(A.message_parameters[1])>>

C3_Witness ==
    /\ Constructed
    /\ A.cls = "DateTimeException"
    /\ A.error_class = Some("DATETIME_OVERFLOW")
    /\ A.message_parameters = Some([k \in {"value"} |-> "9999-99-99"])
    /\ first["getErrorClass"] # <<>>
    /\ first["getMessageParameters"] # <<>>
    /\ result.op = "__str__"
    /\ result.val = <<"[DATETIME_OVERFLOW] value 9999-99-99 overflows datetime range">>

(* C4: when the arguments pass the assert but the registry fails            *)
(* (unregistered class, or a placeholder missing from the parameters), the  *)
(* constructor call raises that same registry failure and yields no         *)
(* instance, of UnknownException or of any other class.                     *)
C4_ResolutionFailurePropagates ==
    (Constructed /\ ClassOnly /\ ~Resolvable(A.error_class[1], A.message_parameters[1])) =>
        /\ inst = NoInstance
        /\ result = Raised("__init__", A.cls,
                           IF A.error_class[1] \in DOMAIN ERROR_CLASSES
                           THEN "MissingParameter" ELSE "UnknownErrorClass")

C4_Witness ==
    /\ Constructed
    /\ A.message = None
    /\ A.error_class = Some("TWO_PARAMS")
    /\ A.message_parameters = Some([k \in {"value"} |-> "9999-99-99"])
    /\ result.exc = "MissingParameter"
    /\ inst = NoInstance

Refines(v, h) ==
    \/ v = h
    \/ h = "PySparkException"
    \/ <<v, h>> \in { <<"NumberFormatException", "IllegalArgumentException">>,
                      <<"TempTableAlreadyExistsException", "AnalysisException">>,
                      <<"ParseException", "AnalysisException">> }

(* C6: an `except h` clause for a class h of base.py catches an instance of *)
(* class v iff v is h or a descendant of h in the fixed tree: every class   *)
(* derives from PySparkException, NumberFormatException from                *)
(* IllegalArgumentException, TempTableAlreadyExistsException and            *)
(* ParseException from AnalysisException, and nothing else.                 *)
C6_Taxonomy ==
    (inst # NoInstance /\ result.op = "isinstance" /\ result.arg \in PySparkClasses) =>
        result.val = <<Refines(Self.cls, result.arg)>>

C6_Witness ==
    /\ inst # NoInstance
    /\ Self.cls = "ParseException"
    /\ result.op = "isinstance"
    /\ result.arg = "AnalysisException"
    /\ result.val = <<TRUE>>

Interop ==
    { <<"PySparkValueError", "ValueError">>,
      <<"PySparkTypeError", "TypeError">>,
      <<"PySparkAttributeError", "AttributeError">> }

(* C7: PySparkValueError, PySparkTypeError and PySparkAttributeError are    *)
(* each caught by `except PySparkException` and by the except clause of     *)
(* their own builtin category (ValueError, TypeError, AttributeError), by   *)
(* neither of the other two; no other class of base.py is caught by any of  *)
(* the three builtin categories.                                            *)
C7_Interop ==
    (inst # NoInstance /\ result.op = "isinstance") =>
        /\ result.arg \in {"ValueError", "TypeError", "AttributeError"} =>
              result.val = << <<Self.cls, result.arg>> \in Interop >>
        /\ (result.arg = "PySparkException"
              /\ Self.cls \in {"PySparkValueError", "PySparkTypeError",
                               "PySparkAttributeError"}) =>
              result.val = <<TRUE>>

C7_Witness ==
    /\ inst # NoInstance
    /\ Self.cls = "PySparkTypeError"
    /\ result.op = "isinstance"
    /\ result.arg = "TypeError"
    /\ result.val = <<TRUE>>

(* C8: isTransientError, called on any constructed instance, returns the    *)
(* constant None and leaves message, error_class and message_parameters     *)
(* unchanged.                                                               *)
C8_TransientConstant ==
    (inst # NoInstance /\ result.op = "isTransientError") =>
        /\ result = Returned("isTransientError", "", None)
        /\ built = <<Fields(Self)>>

Count(log, entry) == Cardinality({ i \in DOMAIN log : log[i] = entry })

(* C9: get_error_message is called exactly once in a successful             *)
(* construction from (error_class, message_parameters), never in one from   *)
(* a literal message, and never by a later accessor or __str__ call; every  *)
(* __str__ call renders the message stored at construction.                 *)
C9_ResolvedOnce ==
    inst # NoInstance =>
        /\ Count(registryLog, "get_error_message") = (IF A.message = None THEN 1 ELSE 0)
        /\ result.op = "__str__" =>
              result.val = << (IF built[1].error_class # None
                               THEN "[" \o built[1].error_class[1] \o "] " ELSE "")
                              \o built[1].message >>

C9_Witness ==
    /\ inst # NoInstance
    /\ A.message = None
    /\ repeated
    /\ result.op = "__str__"
    /\ registryLog = <<"ErrorClassesReader", "get_error_message">>

(* C10: a constructor call whose arguments fail the assert makes no         *)
(* registry interaction at all and raises AssertionError, also when its     *)
(* error_class is unregistered or its parameters miss a placeholder.        *)
C10_CheckBeforeRegistry ==
    (Constructed /\ ~(LiteralOnly \/ ClassOnly)) =>
        /\ registryLog = <<>>
        /\ result.exc = "AssertionError"
        /\ result.exc \notin {"UnknownErrorClass", "MissingParameter"}

C10_Witness ==
    /\ Constructed
    /\ A.message = Some("boom")
    /\ A.error_class = Some("NOT_REGISTERED")
    /\ A.message_parameters # None
    /\ registryLog = <<>>
    /\ result.exc = "AssertionError"

====
